---- MODULE Spec2Model ----
(***************************************************************************)
(* Verification model of the trademark opinion pipeline of src/app.py:     *)
(* the string distance, the consistency repair of the hit analysis, the    *)
(* relevance pre-filter and the run of run_trademark_analysis with its     *)
(* four calls to the language model.                                       *)
(*                                                                         *)
(* Strings that the code inspects character by character (mark names,      *)
(* goods/services texts) are sequences of one-character strings.  Python   *)
(* dicts are records; a key that is absent from the dict is absent from    *)
(* the record's DOMAIN.  A JSON value that is not an object is the record  *)
(* NotAnObject.                                                            *)
(***************************************************************************)
EXTENDS Integers, Sequences, FiniteSets, TLC

VARIABLES
    pc,                       \* position inside run_trademark_analysis
    proposed_name,            \* arguments of run_trademark_analysis
    proposed_class,
    proposed_goods_services,
    conflicts_data,
    relevant_conflicts,       \* locals of generate_trademark_opinion
    excluded_count,
    section_one_results,
    section_two_results,
    section_three_results,
    s3_args,                  \* the arguments section_three_analysis was called with
    calls,                    \* chat.completions.create calls issued so far, in order
    pending,                  \* the call that has been issued and has not returned
    stages,                   \* stage functions entered so far, in order
    risk_response,            \* what the risk-assessment call answered
    raised,                   \* the function an exception escaped from, if any
    result,                   \* value returned by run_trademark_analysis
    cc_pc,                    \* driver of consistency_check on its own
    cc_mark,
    cc_raw,
    cc_out,
    cc_again,                 \* consistency_check applied to its own result
    web_pc,                   \* position inside analyze_web_common_law
    extracted_data,           \* its argument
    cited_term_analysis,      \* its locals
    component_analysis,
    risk_assessment,
    web_calls,                \* requests.post calls issued so far, in order
    web_pending,              \* the request that has not returned
    final_report,             \* value returned by analyze_web_common_law
    fn_pc,                    \* driver of one pure function on its own
    fn_args,                  \* its arguments
    fn_out,                   \* its result
    fn_again                  \* the result of the second application

vars == <<pc, proposed_name, proposed_class, proposed_goods_services,
          conflicts_data, relevant_conflicts, excluded_count,
          section_one_results, section_two_results, section_three_results,
          s3_args, calls, pending, stages, risk_response, raised, result,
          cc_pc, cc_mark, cc_raw, cc_out, cc_again,
          web_pc, extracted_data, cited_term_analysis, component_analysis,
          risk_assessment, web_calls, web_pending, final_report,
          fn_pc, fn_args, fn_out, fn_again>>

pipeVars == <<pc, proposed_name, proposed_class, proposed_goods_services,
              conflicts_data, relevant_conflicts, excluded_count,
              section_one_results, section_two_results, section_three_results,
              s3_args, calls, pending, stages, risk_response, raised, result>>

ccVars == <<cc_pc, cc_mark, cc_raw, cc_out, cc_again>>

webVars == <<web_pc, extracted_data, cited_term_analysis, component_analysis,
             risk_assessment, web_calls, web_pending, final_report>>

fnVars == <<fn_pc, fn_args, fn_out, fn_again>>

(***************************************************************************)
(* Bounds of the model.                                                    *)
(***************************************************************************)
MaxEntries == 2      \* entries in one raw classification handed to consistency_check
MaxHits == 1         \* entries per bucket in a hit-analysis response of the pipeline
MaxConflicts == 1    \* candidates in conflicts_data

\* a local variable that has not been assigned yet
Unset == [unset |-> TRUE]

(***************************************************************************)
(* Python values.                                                          *)
(***************************************************************************)
NotAnObject == [not_an_object |-> TRUE]

IsObject(v) == "not_an_object" \notin DOMAIN v

\* dict.get(key, default)
Get(d, key, default) == IF key \in DOMAIN d THEN d[key] ELSE default

Min2(x, y) == IF x <= y THEN x ELSE y

Min3(x, y, z) == Min2(x, Min2(y, z))

SeqUpTo(S, n) == UNION {[1..k -> S] : k \in 0..n}

\* str.lower() on one character and on a string
UpperCase ==
    <<"A", "B", "C", "D", "E", "F", "G", "H", "I", "J", "K", "L", "M">> \o
    <<"N", "O", "P", "Q", "R", "S", "T", "U", "V", "W", "X", "Y", "Z">>

LowerCase ==
    <<"a", "b", "c", "d", "e", "f", "g", "h", "i", "j", "k", "l", "m">> \o
    <<"n", "o", "p", "q", "r", "s", "t", "u", "v", "w", "x", "y", "z">>

LowerChar(c) ==
    IF \E i \in 1..Len(UpperCase) : UpperCase[i] = c
    THEN LowerCase[CHOOSE i \in 1..Len(UpperCase) : UpperCase[i] = c]
    ELSE c

Lower(s) == [i \in 1..Len(s) |-> LowerChar(s[i])]

(***************************************************************************)
(* levenshtein_distance(a, b): the dynamic-programming table of the code.  *)
(***************************************************************************)
\* variant of levenshtein_distance whose minimum leaves out the substitution
levenshtein_distance_NoSubstitution(a, b) ==
    IF a = b THEN 0
    ELSE IF Len(a) = 0 THEN Len(b)
    ELSE IF Len(b) = 0 THEN Len(a)
    ELSE LET dp[i \in 0..Len(a), j \in 0..Len(b)] ==
                 IF j = 0 THEN i
                 ELSE IF i = 0 THEN j
                 ELSE IF a[i] = b[j] THEN dp[i - 1, j - 1]
                 ELSE 1 + Min2(dp[i - 1, j], dp[i, j - 1])
         IN dp[Len(a), Len(b)]

\* variant of levenshtein_distance whose minimum leaves out the insertion
levenshtein_distance_NoInsertion(a, b) ==
    IF a = b THEN 0
    ELSE IF Len(a) = 0 THEN Len(b)
    ELSE IF Len(b) = 0 THEN Len(a)
    ELSE LET dp[i \in 0..Len(a), j \in 0..Len(b)] ==
                 IF j = 0 THEN i
                 ELSE IF i = 0 THEN j
                 ELSE IF a[i] = b[j] THEN dp[i - 1, j - 1]
                 ELSE 1 + Min2(dp[i - 1, j], dp[i - 1, j - 1])
         IN dp[Len(a), Len(b)]

levenshtein_distance(a, b) ==
    IF a = b THEN 0
    ELSE IF Len(a) = 0 THEN Len(b)
    ELSE IF Len(b) = 0 THEN Len(a)
    ELSE LET dp[i \in 0..Len(a), j \in 0..Len(b)] ==
                 IF j = 0 THEN i
                 ELSE IF i = 0 THEN j
                 ELSE IF a[i] = b[j] THEN dp[i - 1, j - 1]
                 ELSE 1 + Min3(dp[i - 1, j], dp[i, j - 1], dp[i - 1, j - 1])
         IN dp[Len(a), Len(b)]

(***************************************************************************)
(* consistency_check(proposed_mark, classification).                       *)
(***************************************************************************)
\* variant of BucketOf that files every distance above 1 as a two-letter
\* difference
BucketOf_FarIsTwoLetter(diff) ==
    IF diff = 0 THEN "identical_marks"
    ELSE IF diff = 1 THEN "one_letter_marks"
    ELSE "two_letter_marks"

\* the bucket the if/elif chain of the two loops appends an entry to
BucketOf(diff) ==
    IF diff = 0 THEN "identical_marks"
    ELSE IF diff = 1 THEN "one_letter_marks"
    ELSE IF diff = 2 THEN "two_letter_marks"
    ELSE "similar_marks"

\* one of the two for loops: entries are appended in order
RECURSIVE Reclassify(_, _, _)
Reclassify(proposed_mark, entries, corrected) ==
    IF entries = <<>> THEN corrected
    ELSE LET entry == Head(entries)
             candidate == Get(entry, "mark", <<>>)
             diff == levenshtein_distance(proposed_mark, candidate)
         IN Reclassify(proposed_mark, Tail(entries),
                       [corrected EXCEPT ![BucketOf(diff)] = Append(@, entry)])

\* variant of consistency_check that files the raw similar_marks by distance
\* as well
consistency_check_ReclassifiesSimilar(proposed_mark, classification) ==
    LET corrected0 == [identical_marks |-> <<>>,
                       one_letter_marks |-> <<>>,
                       two_letter_marks |-> <<>>,
                       similar_marks |-> <<>>]
        corrected1 == Reclassify(proposed_mark,
                                 Get(classification, "similar_marks", <<>>),
                                 corrected0)
        corrected2 == Reclassify(proposed_mark,
                                 Get(classification, "identical_marks", <<>>),
                                 corrected1)
    IN Reclassify(proposed_mark,
                  Get(classification, "one_two_letter_marks", <<>>),
                  corrected2)

consistency_check(proposed_mark, classification) ==
    LET corrected0 == [identical_marks |-> <<>>,
                       one_letter_marks |-> <<>>,
                       two_letter_marks |-> <<>>,
                       similar_marks |-> Get(classification, "similar_marks", <<>>)]
        corrected1 == Reclassify(proposed_mark,
                                 Get(classification, "identical_marks", <<>>),
                                 corrected0)
    IN Reclassify(proposed_mark,
                  Get(classification, "one_two_letter_marks", <<>>),
                  corrected1)

\* classification.get and entry.get raise AttributeError on a value that is
\* not a dict
consistency_check_raises(classification) ==
    \/ ~IsObject(classification)
    \/ /\ IsObject(classification)
       /\ \E k \in {"identical_marks", "one_two_letter_marks"} :
              \E i \in 1..Len(Get(classification, k, <<>>)) :
                  ~IsObject(Get(classification, k, <<>>)[i])

(***************************************************************************)
(* validate_trademark_relevance(conflicts_array, proposed_goods_services). *)
(***************************************************************************)
\* x in y, for Python strings
IsSubstring(x, y) ==
    \E i \in 0..(Len(y) - Len(x)) : SubSeq(y, i + 1, i + Len(x)) = x

\* \w of the regular expression, over the characters of the model: every
\* character but the blank and the comma is a letter
IsWordChar(c) == c \notin {" ", ","}

\* set(re.findall(r'\b\w+\b', s)): the maximal runs of word characters
Keywords(s) ==
    {SubSeq(s, i, j) : <<i, j>> \in
        {p \in (1..Len(s)) \X (1..Len(s)) :
            /\ p[1] <= p[2]
            /\ \A k \in p[1]..p[2] : IsWordChar(s[k])
            /\ (p[1] = 1 \/ ~IsWordChar(s[p[1] - 1]))
            /\ (p[2] = Len(s) \/ ~IsWordChar(s[p[2] + 1]))}}

stop_words ==
    {<<"a", "n", "d">>, <<"o", "r">>, <<"t", "h", "e">>, <<"a">>, <<"a", "n">>,
     <<"i", "n">>, <<"o", "n">>, <<"f", "o", "r">>, <<"o", "f">>, <<"t", "o">>,
     <<"w", "i", "t", "h">>}

\* variant of is_similar_goods_services whose ratio test is "at least 0.3"
is_similar_goods_services_AtLeast(existing_goods, proposed_goods) ==
    LET existing_lower == Lower(existing_goods)
        proposed_lower == Lower(proposed_goods)
        existing_keywords == Keywords(existing_lower) \ stop_words
        proposed_keywords == Keywords(proposed_lower) \ stop_words
        overlap == Cardinality(existing_keywords \cap proposed_keywords)
        smaller == Min2(Cardinality(existing_keywords), Cardinality(proposed_keywords))
    IN \/ existing_lower = proposed_lower
       \/ IsSubstring(existing_lower, proposed_lower)
       \/ IsSubstring(proposed_lower, existing_lower)
       \/ /\ Cardinality(existing_keywords) > 0
          /\ Cardinality(proposed_keywords) > 0
          /\ 10 * overlap >= 3 * smaller

is_similar_goods_services(existing_goods, proposed_goods) ==
    LET existing_lower == Lower(existing_goods)
        proposed_lower == Lower(proposed_goods)
        existing_keywords == Keywords(existing_lower) \ stop_words
        proposed_keywords == Keywords(proposed_lower) \ stop_words
        overlap == Cardinality(existing_keywords \cap proposed_keywords)
        smaller == Min2(Cardinality(existing_keywords), Cardinality(proposed_keywords))
    IN \/ existing_lower = proposed_lower
       \/ IsSubstring(existing_lower, proposed_lower)
       \/ IsSubstring(proposed_lower, existing_lower)
       \/ /\ Cardinality(existing_keywords) > 0
          /\ Cardinality(proposed_keywords) > 0
          \* overlap / smaller > 0.3
          /\ 10 * overlap > 3 * smaller

\* variant of FilterLoop that drops and counts a conflict without the field
RECURSIVE FilterLoop_DropsMissing(_, _, _, _)
FilterLoop_DropsMissing(conflicts, proposed_goods, relevant, excluded) ==
    IF conflicts = <<>> THEN <<relevant, excluded>>
    ELSE LET conflict == Head(conflicts)
         IN IF /\ "goods_services" \in DOMAIN conflict
               /\ is_similar_goods_services(conflict.goods_services, proposed_goods)
            THEN FilterLoop_DropsMissing(Tail(conflicts), proposed_goods,
                                         Append(relevant, conflict), excluded)
            ELSE FilterLoop_DropsMissing(Tail(conflicts), proposed_goods,
                                         relevant, excluded + 1)

\* variant of FilterLoop that counts every conflict it compares
RECURSIVE FilterLoop_CountsCompared(_, _, _, _)
FilterLoop_CountsCompared(conflicts, proposed_goods, relevant, excluded) ==
    IF conflicts = <<>> THEN <<relevant, excluded>>
    ELSE LET conflict == Head(conflicts)
         IN IF "goods_services" \in DOMAIN conflict
            THEN IF is_similar_goods_services(conflict.goods_services, proposed_goods)
                 THEN FilterLoop_CountsCompared(Tail(conflicts), proposed_goods,
                                                Append(relevant, conflict), excluded + 1)
                 ELSE FilterLoop_CountsCompared(Tail(conflicts), proposed_goods,
                                                relevant, excluded + 1)
            ELSE FilterLoop_CountsCompared(Tail(conflicts), proposed_goods,
                                           Append(relevant, conflict), excluded)

\* variant of FilterLoop that puts a kept conflict in front of the list
RECURSIVE FilterLoop_Prepends(_, _, _, _)
FilterLoop_Prepends(conflicts, proposed_goods, relevant, excluded) ==
    IF conflicts = <<>> THEN <<relevant, excluded>>
    ELSE LET conflict == Head(conflicts)
         IN IF "goods_services" \in DOMAIN conflict
            THEN IF is_similar_goods_services(conflict.goods_services, proposed_goods)
                 THEN FilterLoop_Prepends(Tail(conflicts), proposed_goods,
                                          <<conflict>> \o relevant, excluded)
                 ELSE FilterLoop_Prepends(Tail(conflicts), proposed_goods,
                                          relevant, excluded + 1)
            ELSE FilterLoop_Prepends(Tail(conflicts), proposed_goods,
                                     <<conflict>> \o relevant, excluded)

\* the for loop over the conflicts: <<relevant_conflicts, excluded_count>>
RECURSIVE FilterLoop(_, _, _, _)
FilterLoop(conflicts, proposed_goods, relevant, excluded) ==
    IF conflicts = <<>> THEN <<relevant, excluded>>
    ELSE LET conflict == Head(conflicts)
         IN IF "goods_services" \in DOMAIN conflict
            THEN IF is_similar_goods_services(conflict.goods_services, proposed_goods)
                 THEN FilterLoop(Tail(conflicts), proposed_goods,
                                 Append(relevant, conflict), excluded)
                 ELSE FilterLoop(Tail(conflicts), proposed_goods,
                                 relevant, excluded + 1)
            ELSE FilterLoop(Tail(conflicts), proposed_goods,
                            Append(relevant, conflict), excluded)

validate_trademark_relevance(conflicts_array, proposed_goods) ==
    FilterLoop(conflicts_array, proposed_goods, <<>>, 0)

(***************************************************************************)
(* component_consistency_check(mark, results).                             *)
(***************************************************************************)
required_fields ==
    {"mark", "owner", "goods_services", "status", "class", "class_match",
     "goods_services_match"}

UnknownMark == <<"U", "n", "k", "n", "o", "w", "n">>

\* the loop over required_fields for one mark entry
FillMarkEntry(mark_entry) ==
    [field \in DOMAIN mark_entry \cup required_fields |->
        IF field \in DOMAIN mark_entry THEN mark_entry[field]
        ELSE IF field \in {"class_match", "goods_services_match"} THEN FALSE
        ELSE IF field = "mark" THEN UnknownMark
        ELSE "Unknown"]

\* the body of the loop over the components, for component number i (from 0)
FillComponent(component, i) ==
    LET marks == Get(component, "marks", <<>>)
    IN [key \in DOMAIN component \cup {"component", "marks", "distinctiveness"} |->
           IF key = "marks" THEN [j \in 1..Len(marks) |-> FillMarkEntry(marks[j])]
           ELSE IF key \in DOMAIN component THEN component[key]
           ELSE IF key = "component" THEN <<"Component", i + 1>>
           ELSE "DESCRIPTIVE"]

crowded_field_default ==
    [total_hits |-> 0, distinct_owner_percentage |-> 0, is_crowded |-> FALSE,
     explanation |-> "Unable to determine crowded field status"]

FillCrowdedField(crowded_field) ==
    [key \in DOMAIN crowded_field \cup DOMAIN crowded_field_default |->
        IF key \in DOMAIN crowded_field THEN crowded_field[key]
        ELSE crowded_field_default[key]]

component_consistency_check(mark, results) ==
    LET components == Get(results, "components", <<>>)
    IN [key \in DOMAIN results \cup
                {"identified_coordinated_classes", "coordinated_classes_explanation",
                 "components", "crowded_field"} |->
           IF key = "components"
           THEN [i \in 1..Len(components) |-> FillComponent(components[i], i - 1)]
           ELSE IF key = "crowded_field"
           THEN IF "crowded_field" \in DOMAIN results
                THEN FillCrowdedField(results.crowded_field)
                ELSE crowded_field_default
           ELSE IF key \in DOMAIN results THEN results[key]
           ELSE IF key = "identified_coordinated_classes" THEN <<>>
           ELSE "No coordinated classes identified"]

\* item assignment on a value that is not a dict raises TypeError
component_consistency_check_raises(results) ==
    \/ ~IsObject(results)
    \/ /\ IsObject(results)
       /\ \E i \in 1..Len(Get(results, "components", <<>>)) :
              LET component == Get(results, "components", <<>>)[i]
              IN \/ ~IsObject(component)
                 \/ /\ IsObject(component)
                    /\ \E j \in 1..Len(Get(component, "marks", <<>>)) :
                           ~IsObject(Get(component, "marks", <<>>)[j])

(***************************************************************************)
(* The response of one chat.completions.create call, as the stages see it: *)
(* the call raises, the response has no choices, its text has no JSON      *)
(* block, the block does not parse, or it parses to the value json.        *)
(***************************************************************************)
FailureKinds == {"exception", "no_choices", "no_json", "bad_json"}

Failures == {[kind |-> k, json |-> Unset] : k \in FailureKinds}

Parsed(v) == [kind |-> "json", json |-> v]

(***************************************************************************)
(* section_one_analysis.                                                   *)
(***************************************************************************)
section_one_default ==
    [identified_coordinated_classes |-> <<>>,
     coordinated_classes_explanation |-> "Unable to identify coordinated classes",
     identical_marks |-> <<>>,
     one_letter_marks |-> <<>>,
     two_letter_marks |-> <<>>,
     similar_marks |-> <<>>,
     crowded_field |-> [is_crowded |-> FALSE, percentage |-> 0,
                        explanation |-> "Unable to determine crowded field status"]]

section_one_error_default ==
    [identified_coordinated_classes |-> <<>>,
     coordinated_classes_explanation |-> "Error occurred during analysis",
     identical_marks |-> <<>>,
     one_letter_marks |-> <<>>,
     two_letter_marks |-> <<>>,
     similar_marks |-> <<>>,
     crowded_field |-> [is_crowded |-> FALSE, percentage |-> 0,
                        explanation |-> "Error occurred during analysis"]]

\* the try block of section_one_analysis, given the response of its call
section_one_return(mark, response) ==
    IF response.kind = "exception" THEN section_one_error_default
    ELSE IF response.kind # "json" THEN section_one_default
    ELSE IF consistency_check_raises(response.json) THEN section_one_error_default
    ELSE consistency_check(mark, response.json)

(***************************************************************************)
(* section_two_analysis.                                                   *)
(***************************************************************************)
section_two_default ==
    [identified_coordinated_classes |-> <<>>,
     coordinated_classes_explanation |-> "Unable to identify coordinated classes",
     components |-> <<>>,
     crowded_field |-> [total_hits |-> 0, distinct_owner_percentage |-> 0,
                        is_crowded |-> FALSE,
                        explanation |-> "Unable to determine crowded field status."]]

section_two_error_default ==
    [identified_coordinated_classes |-> <<>>,
     coordinated_classes_explanation |-> "Error occurred during analysis",
     components |-> <<>>,
     crowded_field |-> [total_hits |-> 0, distinct_owner_percentage |-> 0,
                        is_crowded |-> FALSE,
                        explanation |-> "Error occurred during analysis"]]

section_two_return(mark, response) ==
    IF response.kind = "exception" THEN section_two_error_default
    ELSE IF response.kind # "json" THEN section_two_default
    ELSE IF component_consistency_check_raises(response.json)
         THEN section_two_error_default
    ELSE component_consistency_check(mark, response.json)

(***************************************************************************)
(* section_three_analysis.                                                 *)
(***************************************************************************)
\* mark_entry.get raises AttributeError on a similar_marks entry that is not
\* a dict; the loop runs before the try block
skip_check_raises(section_one) ==
    \E i \in 1..Len(Get(section_one, "similar_marks", <<>>)) :
        /\ ~IsObject(Get(section_one, "similar_marks", <<>>)[i])
        /\ \A k \in 1..(i - 1) :
               LET e == Get(section_one, "similar_marks", <<>>)[k]
               IN ~(/\ IsObject(e)
                    /\ Get(e, "similarity_type", "") \in {"Phonetic", "Semantic"}
                    /\ Get(e, "class_match", FALSE))

\* the entries at which the loop over similar_marks breaks
SkipEntries(section_one) ==
    LET similar == Get(section_one, "similar_marks", <<>>)
    IN {i \in 1..Len(similar) :
           /\ IsObject(similar[i])
           /\ Get(similar[i], "similarity_type", "") \in {"Phonetic", "Semantic"}
           /\ Get(similar[i], "class_match", FALSE)}

\* variant of skip_section_two that asks for both matches
skip_section_two_BothMatches(section_one) ==
    \E i \in SkipEntries(section_one) :
        Get(Get(section_one, "similar_marks", <<>>)[i], "goods_services_match", FALSE)

skip_section_two(section_one) == SkipEntries(section_one) # {}

skip_reason(section_one) ==
    IF SkipEntries(section_one) = {} THEN ""
    ELSE LET first == CHOOSE i \in SkipEntries(section_one) :
                          \A k \in SkipEntries(section_one) : i <= k
             e == Get(section_one, "similar_marks", <<>>)[first]
         IN IF Get(e, "goods_services_match", FALSE)
            THEN "Found a Phonetic or Semantic similar mark with both class match and goods/services match"
            ELSE "Found a Phonetic or Semantic similar mark with coordinated class match"

section_three_default(section_one) ==
    LET skip == skip_section_two(section_one)
    IN [likelihood_of_confusion |-> <<"Unable to determine likelihood of confusion.">>,
        descriptiveness |-> <<"Unable to determine descriptiveness.">>,
        aggressive_enforcement |->
            [owners |-> <<>>,
             enforcement_landscape |-> <<"Unable to determine enforcement patterns.">>],
        overall_risk |->
            [level_registration |-> IF skip THEN "MEDIUM-HIGH" ELSE "MEDIUM-LOW",
             explanation_registration |->
                 IF skip THEN <<"Risk level set to MEDIUM-HIGH due to", skip_reason(section_one)>>
                 ELSE <<"Unable to determine precise risk level.">>,
             level_use |-> IF skip THEN "MEDIUM-HIGH" ELSE "MEDIUM-LOW",
             explanation_use |->
                 IF skip THEN <<"Risk level set to MEDIUM-HIGH due to", skip_reason(section_one)>>
                 ELSE <<"Unable to determine precise risk level.">>,
             crowded_field_percentage |-> 0,
             crowded_field_impact |->
                 IF skip
                 THEN "Section II analysis was skipped due to high-risk marks in Section I"
                 ELSE "Unable to determine crowded field impact"]]

\* the try block of section_three_analysis: the parsed value is returned as is
section_three_return(section_one, section_two, response) ==
    IF response.kind = "json" THEN response.json
    ELSE section_three_default(section_one)

(***************************************************************************)
(* clean_and_format_opinion: the row filter over the reformatted text.     *)
(***************************************************************************)
\* line.split("|")
RECURSIVE SplitFrom(_, _, _)
SplitFrom(line, i, current) ==
    IF i > Len(line) THEN <<current>>
    ELSE IF line[i] = "|" THEN <<current>> \o SplitFrom(line, i + 1, <<>>)
    ELSE SplitFrom(line, i + 1, Append(current, line[i]))

Split(line) == SplitFrom(line, 1, <<>>)

ClassMatchText == <<"C", "l", "a", "s", "s", " ", "M", "a", "t", "c", "h">>

TrademarkText == <<"T", "r", "a", "d", "e", "m", "a", "r", "k">>

TrueText == <<"t", "r", "u", "e">>

\* whether the loop over formatted_opinion.splitlines() keeps the line
KeepLine(line) ==
    LET parts == Split(line)
    IN IF IsSubstring(<<"|">>, line)
       THEN IF Len(parts) >= 7
            THEN IF IsSubstring(ClassMatchText, line) \/ IsSubstring(TrademarkText, line)
                 THEN TRUE
                 ELSE LET class_match ==
                              IsSubstring(TrueText, Lower(parts[Len(parts) - 2]))
                          goods_services_match ==
                              IsSubstring(TrueText, Lower(parts[Len(parts)]))
                      IN class_match \/ goods_services_match
            ELSE TRUE
       ELSE TRUE

FilterRows(lines) == SelectSeq(lines, KeepLine)

\* the try block of clean_and_format_opinion, given the response of its call
clean_and_format_return(response) ==
    IF response.kind = "exception"
    THEN [kind |-> "error", message |-> "Error during opinion formatting"]
    ELSE IF response.kind = "no_choices"
    THEN [kind |-> "error",
          message |-> "Error: No response received from the language model."]
    ELSE [kind |-> "opinion", text |-> FilterRows(response.text)]

(***************************************************************************)
(* Inputs of a run and responses of the model, drawn from small sets.      *)
(***************************************************************************)
Ab == <<"A", "b">>

ab == <<"a", "b">>

Shampoo == <<"s", "h", "a", "m", "p", "o", "o">>

HairShampoo == <<"H", "a", "i", "r", " ", "S", "h", "a", "m", "p", "o", "o">>

Hats == <<"h", "a", "t", "s">>

ProposedNames == {<<>>, Ab}

ProposedClasses == {"", "3"}

ProposedGoods == {<<>>, Shampoo}

Candidates ==
    {[mark |-> Ab, owner |-> "X", goods_services |-> HairShampoo,
      status |-> "LIVE", class |-> "3"],
     [mark |-> ab, owner |-> "Y", goods_services |-> Hats,
      status |-> "LIVE", class |-> "25"]}

IdenticalEntries ==
    {[mark |-> m, owner |-> "X", class_match |-> TRUE, goods_services_match |-> TRUE] :
        m \in {Ab, ab}}

SimilarEntries ==
    {[mark |-> Hats, owner |-> "Y", similarity_type |-> "Phonetic",
      class_match |-> TRUE, goods_services_match |-> TRUE],
     [mark |-> Hats, owner |-> "Y", similarity_type |-> "Semantic",
      class_match |-> TRUE, goods_services_match |-> FALSE],
     [mark |-> Hats, owner |-> "Y", similarity_type |-> "Phonetic",
      class_match |-> FALSE, goods_services_match |-> TRUE],
     [mark |-> Hats, owner |-> "Y", similarity_type |-> "Functional",
      class_match |-> TRUE, goods_services_match |-> TRUE]}

HitResponses ==
    Failures \cup
    {Parsed([identified_coordinated_classes |-> <<"5">>,
             identical_marks |-> i,
             similar_marks |-> s,
             crowded_field |-> [is_crowded |-> FALSE, percentage |-> 0,
                                explanation |-> "not crowded"]]) :
        i \in SeqUpTo(IdenticalEntries, MaxHits),
        s \in SeqUpTo(SimilarEntries, MaxHits)} \cup
    {Parsed(NotAnObject),
     Parsed([identical_marks |-> <<NotAnObject>>]),
     Parsed([similar_marks |-> <<NotAnObject>>])}

ComponentResponses ==
    Failures \cup
    {Parsed([components |-> <<[component |-> "AB",
                               marks |-> <<[mark |-> Hats, owner |-> "Y"]>>]>>,
             crowded_field |-> [total_hits |-> 3, distinct_owner_percentage |-> p,
                                is_crowded |-> c,
                                explanation |-> "crowded field"]]) :
        p \in {33, 67}, c \in BOOLEAN} \cup
    {Parsed(NotAnObject)}

Levels == {"LOW", "MEDIUM-LOW", "MEDIUM", "MEDIUM-HIGH", "HIGH"}

\* what the model may write as a level: any level of the scale, or another word
ProposedLevels == Levels \cup {"SEVERE"}

RiskJson(registration, use) ==
    [likelihood_of_confusion |-> <<"bullet">>,
     descriptiveness |-> <<"bullet">>,
     aggressive_enforcement |-> [owners |-> <<>>, enforcement_landscape |-> <<>>],
     overall_risk |-> [level_registration |-> registration,
                       explanation_registration |-> <<"explanation">>,
                       level_use |-> use,
                       explanation_use |-> <<"explanation">>,
                       crowded_field_percentage |-> 0,
                       crowded_field_impact |-> "impact"]]

RiskResponses ==
    Failures \cup
    {Parsed(RiskJson(l, l)) : l \in ProposedLevels} \cup
    {Parsed(RiskJson("MEDIUM-HIGH", "LOW")), Parsed(RiskJson("HIGH", "MEDIUM-HIGH")),
     Parsed([likelihood_of_confusion |-> <<"bullet">>]),
     Parsed(NotAnObject)}

HeaderRow == <<"|", "T", "r", "a", "d", "e", "m", "a", "r", "k", "|", "O", "w", "n", "e", "r", "|", "G", "o", "o", "d", "s", "|", "S", "t", "a", "t", "u", "s", "|", "C", "l", "a", "s", "s", "|", "C", "l", "a", "s", "s", " ", "M", "a", "t", "c", "h", "|", "G", "o", "o", "d", "s", " ", "M", "a", "t", "c", "h", "|">>

RowBothFalse == <<"|", "M", "A", "|", "X", "|", "g", "|", "L", "I", "V", "E", "|", "3", "|", "F", "a", "l", "s", "e", "|", "F", "a", "l", "s", "e", "|">>

RowClassTrue == <<"|", "M", "B", "|", "Y", "|", "g", "|", "L", "I", "V", "E", "|", "3", "|", "T", "r", "u", "e", "|", "F", "a", "l", "s", "e", "|">>

FormatResponses ==
    {[kind |-> "exception", text |-> <<>>], [kind |-> "no_choices", text |-> <<>>],
     [kind |-> "text", text |-> <<HeaderRow, RowBothFalse, RowClassTrue>>],
     [kind |-> "text", text |-> <<<<"N", "o", "n", "e">>>>]}

(***************************************************************************)
(* run_trademark_analysis and generate_trademark_opinion.                  *)
(***************************************************************************)
ErrMissing == [kind |-> "error",
               message |-> "Error: Missing required trademark information."]

ErrNoData == [kind |-> "error",
              message |-> "Error: No conflict data provided for analysis."]

\* the except clause of run_trademark_analysis
ErrRun == [kind |-> "error", message |-> "Error running trademark analysis"]

\* variant of CheckInputs with the two checks in the other order
CheckInputs_NoDataFirst(name, class, goods, conflicts) ==
    IF conflicts = <<>> THEN ErrNoData
    ELSE IF name = <<>> \/ class = "" \/ goods = <<>> THEN ErrMissing
    ELSE Unset

\* the two input checks of run_trademark_analysis, in their order
CheckInputs(name, class, goods, conflicts) ==
    IF name = <<>> \/ class = "" \/ goods = <<>> THEN ErrMissing
    ELSE IF conflicts = <<>> THEN ErrNoData
    ELSE Unset

PipeInit ==
    /\ pc = "start"
    /\ proposed_name \in ProposedNames
    /\ proposed_class \in ProposedClasses
    /\ proposed_goods_services \in ProposedGoods
    /\ conflicts_data \in SeqUpTo(Candidates, MaxConflicts)
    /\ relevant_conflicts = <<>>
    /\ excluded_count = 0
    /\ section_one_results = Unset
    /\ section_two_results = Unset
    /\ section_three_results = Unset
    /\ s3_args = Unset
    /\ calls = <<>>
    /\ pending = "none"
    /\ stages = <<>>
    /\ risk_response = Unset
    /\ raised = "none"
    /\ result = Unset

CCIdle ==
    /\ cc_pc = "idle"
    /\ cc_mark = <<>>
    /\ cc_raw = Unset
    /\ cc_out = Unset
    /\ cc_again = Unset

WebIdle ==
    /\ web_pc = "idle"
    /\ extracted_data = <<>>
    /\ cited_term_analysis = Unset
    /\ component_analysis = Unset
    /\ risk_assessment = Unset
    /\ web_calls = <<>>
    /\ web_pending = "none"
    /\ final_report = Unset

FnIdle ==
    /\ fn_pc = "idle"
    /\ fn_args = Unset
    /\ fn_out = Unset
    /\ fn_again = Unset

Init == PipeInit /\ CCIdle /\ WebIdle /\ FnIdle

\* an exception leaves generate_trademark_opinion and is caught by the except
\* clause of run_trademark_analysis
Abort(function) ==
    /\ pc' = "done"
    /\ raised' = function
    /\ result' = ErrRun
    /\ pending' = "none"

\* run_trademark_analysis up to the call of generate_trademark_opinion
Start ==
    /\ pc = "start"
    /\ LET error == CheckInputs(proposed_name, proposed_class,
                                proposed_goods_services, conflicts_data)
       IN IF error # Unset
          THEN /\ pc' = "done"
               /\ result' = error
          ELSE /\ pc' = "filter"
               /\ UNCHANGED result
    /\ UNCHANGED <<proposed_name, proposed_class, proposed_goods_services,
                   conflicts_data, relevant_conflicts, excluded_count,
                   section_one_results, section_two_results,
                   section_three_results, s3_args, calls, pending, stages,
                   risk_response, raised>>
    /\ UNCHANGED <<ccVars, webVars, fnVars>>

\* generate_trademark_opinion: the pre-filter
Filter ==
    /\ pc = "filter"
    /\ LET filtered == validate_trademark_relevance(conflicts_data,
                                                    proposed_goods_services)
       IN /\ relevant_conflicts' = filtered[1]
          /\ excluded_count' = filtered[2]
    /\ stages' = Append(stages, "validate_trademark_relevance")
    /\ pc' = "s1"
    /\ UNCHANGED <<proposed_name, proposed_class, proposed_goods_services,
                   conflicts_data, section_one_results, section_two_results,
                   section_three_results, s3_args, calls, pending,
                   risk_response, raised, result>>
    /\ UNCHANGED <<ccVars, webVars, fnVars>>

\* variant of EnterStage in which the stage repeats its call once
EnterStage_Retry(stage, next) ==
    /\ stages' = Append(stages, stage)
    /\ \/ /\ Abort(stage)
          /\ UNCHANGED calls
       \/ /\ calls' = Append(Append(calls, stage), stage)
          /\ pending' = stage
          /\ pc' = next
          /\ UNCHANGED <<raised, result>>

\* a stage function is entered: get_azure_client() either raises or returns
\* the client, and then the stage issues its one call
EnterStage(stage, next) ==
    /\ stages' = Append(stages, stage)
    /\ \/ /\ Abort(stage)
          /\ UNCHANGED calls
       \/ /\ calls' = Append(calls, stage)
          /\ pending' = stage
          /\ pc' = next
          /\ UNCHANGED <<raised, result>>

SectionOneCall ==
    /\ pc = "s1"
    /\ EnterStage("section_one_analysis", "s1_wait")
    /\ UNCHANGED <<proposed_name, proposed_class, proposed_goods_services,
                   conflicts_data, relevant_conflicts, excluded_count,
                   section_one_results, section_two_results,
                   section_three_results, s3_args, risk_response>>
    /\ UNCHANGED <<ccVars, webVars, fnVars>>

SectionOneReturn ==
    /\ pc = "s1_wait"
    /\ \E response \in HitResponses :
           section_one_results' = section_one_return(proposed_name, response)
    /\ pending' = "none"
    /\ pc' = "s2"
    /\ UNCHANGED <<proposed_name, proposed_class, proposed_goods_services,
                   conflicts_data, relevant_conflicts, excluded_count,
                   section_two_results, section_three_results, s3_args,
                   calls, stages, risk_response, raised, result>>
    /\ UNCHANGED <<ccVars, webVars, fnVars>>

\* generate_trademark_opinion calls section_two_analysis unconditionally
SectionTwoCall ==
    /\ pc = "s2"
    /\ EnterStage("section_two_analysis", "s2_wait")
    /\ UNCHANGED <<proposed_name, proposed_class, proposed_goods_services,
                   conflicts_data, relevant_conflicts, excluded_count,
                   section_one_results, section_two_results,
                   section_three_results, s3_args, risk_response>>
    /\ UNCHANGED <<ccVars, webVars, fnVars>>

SectionTwoReturn ==
    /\ pc = "s2_wait"
    /\ \E response \in ComponentResponses :
           section_two_results' = section_two_return(proposed_name, response)
    /\ pending' = "none"
    /\ pc' = "s3"
    /\ UNCHANGED <<proposed_name, proposed_class, proposed_goods_services,
                   conflicts_data, relevant_conflicts, excluded_count,
                   section_one_results, section_three_results, s3_args,
                   calls, stages, risk_response, raised, result>>
    /\ UNCHANGED <<ccVars, webVars, fnVars>>

\* section_three_analysis up to its call: the client, then the loop over
\* similar_marks, which is outside the try block
SectionThreeCall ==
    /\ pc = "s3"
    /\ s3_args' = [section_one_results |-> section_one_results,
                   section_two_results |-> section_two_results]
    /\ IF skip_check_raises(section_one_results)
       THEN /\ stages' = Append(stages, "section_three_analysis")
            /\ Abort("section_three_analysis")
            /\ UNCHANGED calls
       ELSE EnterStage("section_three_analysis", "s3_wait")
    /\ UNCHANGED <<proposed_name, proposed_class, proposed_goods_services,
                   conflicts_data, relevant_conflicts, excluded_count,
                   section_one_results, section_two_results,
                   section_three_results, risk_response>>
    /\ UNCHANGED <<ccVars, webVars, fnVars>>

\* section_three_analysis returns; generate_trademark_opinion then reads the
\* three results with .get to build comprehensive_opinion
SectionThreeReturn ==
    /\ pc = "s3_wait"
    /\ \E response \in RiskResponses :
           LET returned == section_three_return(s3_args.section_one_results,
                                                s3_args.section_two_results,
                                                response)
           IN /\ risk_response' = response
              /\ section_three_results' = returned
              /\ IF IsObject(returned)
                 THEN /\ pc' = "format"
                      /\ pending' = "none"
                      /\ UNCHANGED <<raised, result>>
                 ELSE Abort("generate_trademark_opinion")
    /\ UNCHANGED <<proposed_name, proposed_class, proposed_goods_services,
                   conflicts_data, relevant_conflicts, excluded_count,
                   section_one_results, section_two_results, s3_args,
                   calls, stages>>
    /\ UNCHANGED <<ccVars, webVars, fnVars>>

FormatCall ==
    /\ pc = "format"
    /\ EnterStage("clean_and_format_opinion", "format_wait")
    /\ UNCHANGED <<proposed_name, proposed_class, proposed_goods_services,
                   conflicts_data, relevant_conflicts, excluded_count,
                   section_one_results, section_two_results,
                   section_three_results, s3_args, risk_response>>
    /\ UNCHANGED <<ccVars, webVars, fnVars>>

\* clean_and_format_opinion returns and run_trademark_analysis returns it
FormatReturn ==
    /\ pc = "format_wait"
    /\ \E response \in FormatResponses :
           result' = clean_and_format_return(response)
    /\ pending' = "none"
    /\ pc' = "done"
    /\ UNCHANGED <<proposed_name, proposed_class, proposed_goods_services,
                   conflicts_data, relevant_conflicts, excluded_count,
                   section_one_results, section_two_results,
                   section_three_results, s3_args, calls, stages,
                   risk_response, raised>>
    /\ UNCHANGED <<ccVars, webVars, fnVars>>

Next ==
    \/ Start
    \/ Filter
    \/ SectionOneCall
    \/ SectionOneReturn
    \/ SectionTwoCall
    \/ SectionTwoReturn
    \/ SectionThreeCall
    \/ SectionThreeReturn
    \/ FormatCall
    \/ FormatReturn

Spec == Init /\ [][Next]_vars

(***************************************************************************)
(* consistency_check on its own: every raw classification of at most       *)
(* MaxEntries entries over the five buckets the hit-analysis prompt names  *)
(* and the merged one_two_letter_marks bucket.                             *)
(***************************************************************************)
Abb == <<"A", "b", "b">>

Abba == <<"A", "b", "b", "a">>

CCProposed == {Ab, Abba}

CCEntries ==
    {[mark |-> m, owner |-> "X"] : m \in {Ab, ab, Abb, Abba, Hats}} \cup
    {[owner |-> "X"],
     [mark |-> Abb, owner |-> "Y", similarity_type |-> "Phonetic"]}

RawBuckets ==
    {"identical_marks", "one_letter_marks", "two_letter_marks",
     "one_two_letter_marks", "similar_marks"}

\* the entries that a sequence of <<bucket, entry>> pairs puts in one bucket
RECURSIVE EntriesOf(_, _)
EntriesOf(pairs, bucket) ==
    IF pairs = <<>> THEN <<>>
    ELSE IF Head(pairs)[1] = bucket
         THEN <<Head(pairs)[2]>> \o EntriesOf(Tail(pairs), bucket)
         ELSE EntriesOf(Tail(pairs), bucket)

\* a bucket without entries is a key the response leaves out
RawOf(pairs) ==
    [bucket \in {b \in RawBuckets : EntriesOf(pairs, b) # <<>>} |->
        EntriesOf(pairs, bucket)]

RawClassifications ==
    {RawOf(pairs) : pairs \in SeqUpTo(RawBuckets \X CCEntries, MaxEntries)}

PipeIdle ==
    /\ pc = "idle"
    /\ proposed_name = <<>>
    /\ proposed_class = ""
    /\ proposed_goods_services = <<>>
    /\ conflicts_data = <<>>
    /\ relevant_conflicts = <<>>
    /\ excluded_count = 0
    /\ section_one_results = Unset
    /\ section_two_results = Unset
    /\ section_three_results = Unset
    /\ s3_args = Unset
    /\ calls = <<>>
    /\ pending = "none"
    /\ stages = <<>>
    /\ risk_response = Unset
    /\ raised = "none"
    /\ result = Unset

CCInit ==
    /\ PipeIdle
    /\ WebIdle
    /\ FnIdle
    /\ cc_pc = "ready"
    /\ cc_mark \in CCProposed
    /\ cc_raw \in RawClassifications
    /\ cc_out = Unset
    /\ cc_again = Unset

Repair ==
    /\ cc_pc = "ready"
    /\ cc_out' = consistency_check(cc_mark, cc_raw)
    /\ cc_pc' = "done"
    /\ UNCHANGED <<cc_mark, cc_raw, cc_again>>
    /\ UNCHANGED <<pipeVars, webVars, fnVars>>

\* the function called on the classification it returned
RepairAgain ==
    /\ cc_pc = "done"
    /\ cc_again' = consistency_check(cc_mark, cc_out)
    /\ cc_pc' = "again"
    /\ UNCHANGED <<cc_mark, cc_raw, cc_out>>
    /\ UNCHANGED <<pipeVars, webVars, fnVars>>

CCNext == Repair \/ RepairAgain

SpecCC == CCInit /\ [][CCNext]_vars

(***************************************************************************)
(* analyze_web_common_law: three requests to the chat-completions          *)
(* endpoint, one per section.  What a request returns is outside the       *)
(* program.  The text of an answer is never inspected by the code, so it   *)
(* is kept as a record of what the text says.                              *)
(***************************************************************************)

\* what requests.post and the indexing of its JSON body can do
WebFailures == {[kind |-> k, content |-> Unset] : k \in {"exception", "status", "no_choices"}}

Content(text) == [kind |-> "content", content |-> text]

\* requests.post raises, or response.json()["choices"][0] does
web_raises(response) == response.kind \in {"exception", "no_choices"}

\* the text a section function returns for a response that does not raise
web_return(response, failed) ==
    IF response.kind = "content" THEN response.content ELSE [text |-> failed]

CitedTermResponses ==
    WebFailures \cup
    {Content([section |-> "IV", identical_cited_terms |-> i]) : i \in BOOLEAN}

WebComponentResponses ==
    WebFailures \cup
    {Content([section |-> "V", omitted |-> o, crowded |-> c]) :
        o \in BOOLEAN, c \in BOOLEAN}

WebRiskResponses ==
    WebFailures \cup {Content([section |-> "VI", risk |-> l]) : l \in Levels}

ExtractedData == {<<>>, <<"page one">>}

WebInit ==
    /\ PipeIdle
    /\ CCIdle
    /\ FnIdle
    /\ web_pc = "section_four_analysis"
    /\ extracted_data \in ExtractedData
    /\ cited_term_analysis = Unset
    /\ component_analysis = Unset
    /\ risk_assessment = Unset
    /\ web_calls = <<>>
    /\ web_pending = "none"
    /\ final_report = Unset

\* a section function builds its prompt and issues its request
WebCall(function) ==
    /\ web_pc = function
    /\ web_pending = "none"
    /\ web_calls' = Append(web_calls, function)
    /\ web_pending' = function
    /\ UNCHANGED <<web_pc, extracted_data, cited_term_analysis,
                   component_analysis, risk_assessment, final_report>>
    /\ UNCHANGED <<pipeVars, ccVars, fnVars>>

\* nothing in analyze_web_common_law catches what a section raises
WebRaise ==
    /\ web_pc' = "raised"
    /\ web_pending' = "none"
    /\ UNCHANGED <<extracted_data, cited_term_analysis, component_analysis,
                   risk_assessment, web_calls, final_report>>

SectionFourPost == WebCall("section_four_analysis")

SectionFourAnswer ==
    /\ web_pending = "section_four_analysis"
    /\ \E response \in CitedTermResponses :
        IF web_raises(response) THEN WebRaise
        ELSE /\ cited_term_analysis' =
                    web_return(response, "Failed to generate cited term analysis")
             /\ web_pc' = "section_five_analysis"
             /\ web_pending' = "none"
             /\ UNCHANGED <<extracted_data, component_analysis, risk_assessment,
                            web_calls, final_report>>
    /\ UNCHANGED <<pipeVars, ccVars, fnVars>>

\* section_five_analysis is called with the extracted data and the proposed
\* name only
SectionFivePost == WebCall("section_five_analysis")

SectionFiveAnswer ==
    /\ web_pending = "section_five_analysis"
    /\ \E response \in WebComponentResponses :
        IF web_raises(response) THEN WebRaise
        ELSE /\ component_analysis' =
                    web_return(response, "Failed to generate component analysis")
             /\ web_pc' = "section_six_analysis"
             /\ web_pending' = "none"
             /\ UNCHANGED <<extracted_data, cited_term_analysis, risk_assessment,
                            web_calls, final_report>>
    /\ UNCHANGED <<pipeVars, ccVars, fnVars>>

SectionSixPost == WebCall("section_six_analysis")

\* the report is the three texts under the title line
SectionSixAnswer ==
    /\ web_pending = "section_six_analysis"
    /\ \E response \in WebRiskResponses :
        IF web_raises(response) THEN WebRaise
        ELSE /\ risk_assessment' =
                    web_return(response, "Failed to generate risk assessment")
             /\ final_report' = <<proposed_name, cited_term_analysis,
                                  component_analysis, risk_assessment'>>
             /\ web_pc' = "done"
             /\ web_pending' = "none"
             /\ UNCHANGED <<extracted_data, cited_term_analysis,
                            component_analysis, web_calls>>
    /\ UNCHANGED <<pipeVars, ccVars, fnVars>>

WebNext ==
    \/ SectionFourPost
    \/ SectionFourAnswer
    \/ SectionFivePost
    \/ SectionFiveAnswer
    \/ SectionSixPost
    \/ SectionSixAnswer

SpecWeb == WebInit /\ [][WebNext]_vars

(***************************************************************************)
(* validate_trademark_relevance on its own: the arguments are drawn from   *)
(* bounded sets, the function is applied, and then applied again to the    *)
(* list it returned.                                                       *)
(***************************************************************************)
MaxCandidates == 3

\* "HATS": equal to Hats but for case
HatsUpper == <<"H", "A", "T", "S">>

\* "shampoo, soap": shares one of two keywords with HairShampoo, neither text inside the other
ShampooSoap == <<"s", "h", "a", "m", "p", "o", "o", ",", " ", "s", "o", "a", "p">>

\* "b c d e f g h i j k": ten keywords
TenWords == <<"b", " ", "c", " ", "d", " ", "e", " ", "f", " ", "g", " ", "h", " ", "i", " ", "j", " ", "k">>

\* "b c d l m p q r s u": ten keywords, three of them in TenWords: ratio exactly 0.30
ThreeOfTen == <<"b", " ", "c", " ", "d", " ", "l", " ", "m", " ", "p", " ", "q", " ", "r", " ", "s", " ", "u">>

\* "b c d e l m p q r s": ten keywords, four of them in TenWords: ratio 0.40
FourOfTen == <<"b", " ", "c", " ", "d", " ", "e", " ", "l", " ", "m", " ", "p", " ", "q", " ", "r", " ", "s">>

\* "the hats": a stop word and one keyword
TheHats == <<"t", "h", "e", " ", "h", "a", "t", "s">>

\* "the soap": shares only a stop word with TheHats
TheSoap == <<"t", "h", "e", " ", "s", "o", "a", "p">>

\* "on the": stop words only
OnThe == <<"o", "n", " ", "t", "h", "e">>

FilterGoods == {<<>>, Shampoo, Hats, TenWords, TheHats}

\* goods_services texts of the candidates
CandidateGoods ==
    {HairShampoo, HatsUpper, ShampooSoap, ThreeOfTen, FourOfTen, TheSoap, OnThe}

\* candidates with the field, and candidates without it
FilterCandidates ==
    {[mark |-> Ab, goods_services |-> g] : g \in CandidateGoods}
    \cup {[mark |-> Ab], [mark |-> ab, owner |-> "Y"]}

FilterInit ==
    /\ PipeIdle
    /\ CCIdle
    /\ WebIdle
    /\ fn_pc = "ready"
    /\ fn_args \in {[conflicts_array |-> c, proposed_goods_services |-> g] :
                        c \in SeqUpTo(FilterCandidates, MaxCandidates),
                        g \in FilterGoods}
    /\ fn_out = Unset
    /\ fn_again = Unset

\* one call of the function
FilterOnce ==
    /\ fn_pc = "ready"
    /\ fn_out' = validate_trademark_relevance(fn_args.conflicts_array,
                                               fn_args.proposed_goods_services)
    /\ fn_pc' = "filtered"
    /\ UNCHANGED <<fn_args, fn_again>>
    /\ UNCHANGED <<pipeVars, ccVars, webVars>>

\* the function called on the relevant list of the first call
FilterAgain ==
    /\ fn_pc = "filtered"
    /\ fn_again' = validate_trademark_relevance(fn_out[1],
                                                 fn_args.proposed_goods_services)
    /\ fn_pc' = "refiltered"
    /\ UNCHANGED <<fn_args, fn_out>>
    /\ UNCHANGED <<pipeVars, ccVars, webVars>>

FilterNext == FilterOnce \/ FilterAgain

SpecFilter == FilterInit /\ [][FilterNext]_vars

(***************************************************************************)
(* levenshtein_distance on its own: two names are drawn from bounded sets  *)
(* and the function is applied to them in both orders.                     *)
(***************************************************************************)
MaxLen == 3

LevChars == {"a", "A", "b"}

Names == SeqUpTo(LevChars, MaxLen)

Cat == <<"C", "A", "T">>

Car == <<"C", "A", "R">>

Dog == <<"D", "O", "G">>

LevInit ==
    /\ PipeIdle
    /\ CCIdle
    /\ WebIdle
    /\ fn_pc = "ready"
    /\ fn_args \in {[a |-> x, b |-> y] : x \in Names, y \in Names}
                   \cup {[a |-> x, b |-> y] : x \in {Cat, Car, Dog}, y \in {Cat, Car, Dog}}
    /\ fn_out = Unset
    /\ fn_again = Unset

\* the function called on (a, b) and on (b, a)
Measure ==
    /\ fn_pc = "ready"
    /\ fn_out' = levenshtein_distance(fn_args.a, fn_args.b)
    /\ fn_again' = levenshtein_distance(fn_args.b, fn_args.a)
    /\ fn_pc' = "done"
    /\ UNCHANGED fn_args
    /\ UNCHANGED <<pipeVars, ccVars, webVars>>

LevNext == Measure

SpecLev == LevInit /\ [][LevNext]_vars

(***************************************************************************)
(* The row filter of clean_and_format_opinion on its own: the reformatted  *)
(* opinion is a table in the row format of the opinion template, drawn     *)
(* line by line from a small set, and the try block is applied to it.      *)
(***************************************************************************)
MaxLines == 2

SeparatorRow == <<"|", "-", "|", "-", "|", "-", "|", "-", "|", "-", "|", "-", "|", "-", "|">>

NoneLine == <<"N", "o", "n", "e">>

RowMarks == {<<"M", "A">>, <<"M", "B">>}

\* the text of a [True/False] cell
FlagText(flag) ==
    IF flag THEN <<"T", "r", "u", "e">> ELSE <<"F", "a", "l", "s", "e">>

\* | [Mark 1] | [Owner] | [Goods/Services] | [Status] | [Class] | [True/False] | [True/False] |
DataRow(mark, class_match, goods_services_match) ==
    <<"|">> \o mark \o <<"|", "X", "|", "g", "|", "L", "I", "V", "E", "|", "3", "|">>
    \o FlagText(class_match) \o <<"|">> \o FlagText(goods_services_match) \o <<"|">>

\* the lines a table of the opinion is made of
TableLines ==
    {[kind |-> "header"], [kind |-> "separator"], [kind |-> "text"]}
    \cup {[kind |-> "data", mark |-> m, class_match |-> c, goods_services_match |-> g] :
              m \in RowMarks, c \in BOOLEAN, g \in BOOLEAN}

RenderLine(line) ==
    IF line.kind = "header" THEN HeaderRow
    ELSE IF line.kind = "separator" THEN SeparatorRow
    ELSE IF line.kind = "text" THEN NoneLine
    ELSE DataRow(line.mark, line.class_match, line.goods_services_match)

\* formatted_opinion.splitlines() of the response
RenderLines(lines) == [i \in 1..Len(lines) |-> RenderLine(lines[i])]

RowsInit ==
    /\ PipeIdle
    /\ CCIdle
    /\ WebIdle
    /\ fn_pc = "ready"
    /\ fn_args \in {[lines |-> l] : l \in SeqUpTo(TableLines, MaxLines)}
    /\ fn_out = Unset
    /\ fn_again = Unset

\* the response arrives and the try block filters its lines
Reformat ==
    /\ fn_pc = "ready"
    /\ fn_out' = clean_and_format_return(
                     [kind |-> "text", text |-> RenderLines(fn_args.lines)])
    /\ fn_pc' = "done"
    /\ UNCHANGED <<fn_args, fn_again>>
    /\ UNCHANGED <<pipeVars, ccVars, webVars>>

RowsNext == Reformat

SpecRows == RowsInit /\ [][RowsNext]_vars

(***************************************************************************)
(* validate_trademark_relevance given its candidates as a string.  A       *)
(* string is kept as what it is to the two parsers: JSON text, text that   *)
(* is a Python expression but not JSON (one that gives a value, or one    *)
(* that calls sys.exit), or neither; whether it starts with "[" once       *)
(* stripped; and the value it denotes.                                     *)
(***************************************************************************)
ConflictStrings ==
    {[text |-> "json", starts_with_bracket |-> TRUE, denotes |-> v] :
        v \in SeqUpTo(FilterCandidates, MaxConflicts)}
    \cup {[text |-> "python", starts_with_bracket |-> b, denotes |-> v] :
              b \in BOOLEAN, v \in SeqUpTo(FilterCandidates, MaxConflicts)}
    \cup {[text |-> t, starts_with_bracket |-> b, denotes |-> <<>>] :
              t \in {"python_exit", "neither"}, b \in BOOLEAN}

\* the if isinstance(conflicts_array, str) block: the conflicts the loop
\* runs over, whether eval was given the text, and what eval raised: a
\* SyntaxError is an Exception, SystemExit is not
parse_conflicts_array(conflicts_array) ==
    IF conflicts_array.text = "json"
    THEN [conflicts |-> conflicts_array.denotes, evaluated |-> FALSE,
          raised |-> "none"]
    ELSE IF conflicts_array.starts_with_bracket
    THEN IF conflicts_array.text = "python"
         THEN [conflicts |-> conflicts_array.denotes, evaluated |-> TRUE,
               raised |-> "none"]
         ELSE IF conflicts_array.text = "python_exit"
         THEN [conflicts |-> <<>>, evaluated |-> TRUE, raised |-> "SystemExit"]
         ELSE [conflicts |-> <<>>, evaluated |-> TRUE, raised |-> "Exception"]
    ELSE [conflicts |-> <<>>, evaluated |-> FALSE, raised |-> "none"]

ParseInit ==
    /\ PipeIdle
    /\ CCIdle
    /\ WebIdle
    /\ fn_pc = "ready"
    /\ fn_args \in {[conflicts_array |-> c, proposed_goods_services |-> g] :
                        c \in ConflictStrings, g \in FilterGoods}
    /\ fn_out = Unset
    /\ fn_again = Unset

\* one call of the function on a string
FilterString ==
    /\ fn_pc = "ready"
    /\ LET parsed == parse_conflicts_array(fn_args.conflicts_array)
       IN fn_out' =
              [evaluated |-> parsed.evaluated,
               raised |-> parsed.raised,
               returned |-> IF parsed.raised # "none" THEN <<<<>>, 0>>
                            ELSE validate_trademark_relevance(
                                     parsed.conflicts,
                                     fn_args.proposed_goods_services)]
    /\ fn_pc' = "done"
    /\ UNCHANGED <<fn_args, fn_again>>
    /\ UNCHANGED <<pipeVars, ccVars, webVars>>

\* run_trademark_analysis given the string as conflicts_data, with a name
\* and a class: the input checks, the pre-filter of
\* generate_trademark_opinion and the except clause.  A run whose pre-filter
\* returns goes on to section_one_analysis.
RunOnString ==
    /\ fn_pc = "ready"
    /\ LET parsed == parse_conflicts_array(fn_args.conflicts_array)
       IN fn_again' =
              IF fn_args.proposed_goods_services = <<>> THEN ErrMissing
              ELSE IF parsed.raised = "Exception" THEN ErrRun
              ELSE IF parsed.raised = "SystemExit"
              THEN [kind |-> "raised", message |-> "SystemExit"]
              ELSE [kind |-> "section_one_analysis", message |-> ""]
    /\ fn_pc' = "ran"
    /\ UNCHANGED <<fn_args, fn_out>>
    /\ UNCHANGED <<pipeVars, ccVars, webVars>>

ParseNext == FilterString \/ RunOnString

SpecParse == ParseInit /\ [][ParseNext]_vars

(***************************************************************************)
(* Properties.                                                             *)
(***************************************************************************)
\* the distance the claims speak of: case-insensitive, between the proposed
\* mark and the mark of an entry
CaseInsensitiveDistance(proposed_mark, entry) ==
    levenshtein_distance(Lower(proposed_mark), Lower(Get(entry, "mark", <<>>)))

AllAtDistance(proposed_mark, entries, d) ==
    \A i \in 1..Len(entries) : CaseInsensitiveDistance(proposed_mark, entries[i]) = d

\* C1: after consistency_check every entry of identical_marks is at
\* case-insensitive distance 0 from the proposed mark, every entry of
\* one_letter_marks at distance exactly 1 and every entry of two_letter_marks
\* at distance exactly 2.  The code compares the names as written, so a
\* candidate that differs from the proposed mark only in case is counted as
\* one or two letters away.
C1_BucketsMatchCaseInsensitiveDistance ==
    cc_pc = "done" =>
        /\ AllAtDistance(cc_mark, cc_out.identical_marks, 0)
        /\ AllAtDistance(cc_mark, cc_out.one_letter_marks, 1)
        /\ AllAtDistance(cc_mark, cc_out.two_letter_marks, 2)

\* the level section_three_analysis returned under a key of overall_risk
ReturnedLevel(key) ==
    IF IsObject(section_three_results) /\ "overall_risk" \in DOMAIN section_three_results
    THEN Get(section_three_results.overall_risk, key, "absent")
    ELSE "absent"

\* section_three_analysis has returned an assessment
RiskReturned == section_three_results # Unset /\ IsObject(section_three_results)

HasIdenticalMark ==
    /\ section_one_results # Unset
    /\ Get(section_one_results, "identical_marks", <<>>) # <<>>

\* C2: whenever the hit analysis holds an identical mark, the assessment
\* returned by section_three_analysis has both levels MEDIUM-HIGH, whatever
\* the model answered.  The code returns the model's answer as parsed and
\* its failure default ignores identical marks.
C2_IdenticalMarkForcesMediumHigh ==
    (RiskReturned /\ HasIdenticalMark) =>
        /\ ReturnedLevel("level_registration") = "MEDIUM-HIGH"
        /\ ReturnedLevel("level_use") = "MEDIUM-HIGH"

ModelProposed(registration, use) ==
    /\ risk_response # Unset
    /\ risk_response.kind = "json"
    /\ IsObject(risk_response.json)
    /\ "overall_risk" \in DOMAIN risk_response.json
    /\ risk_response.json.overall_risk.level_registration = registration
    /\ risk_response.json.overall_risk.level_use = use

CrowdedField ==
    /\ section_two_results # Unset
    /\ section_two_results.crowded_field.is_crowded

\* C3: with no identical mark, a crowded field and a model that proposes
\* MEDIUM-HIGH, the level of the risk stage is MEDIUM-LOW (one step down),
\* never LOW.  The code applies no step: it returns MEDIUM-HIGH.
C3_CrowdedFieldStepsDown ==
    (/\ RiskReturned
     /\ ~HasIdenticalMark
     /\ ~skip_section_two(section_one_results)
     /\ CrowdedField
     /\ ModelProposed("MEDIUM-HIGH", "MEDIUM-HIGH")) =>
        /\ ReturnedLevel("level_registration") = "MEDIUM-LOW"
        /\ ReturnedLevel("level_use") = "MEDIUM-LOW"

ClippedLevels == {"MEDIUM-LOW", "MEDIUM", "MEDIUM-HIGH"}

\* C4: every level the risk stage hands to the assembler lies between
\* MEDIUM-LOW and MEDIUM-HIGH.  The code hands on LOW, HIGH and words that are
\* not on the scale.
C4_LevelsClipped ==
    pc \in {"format", "format_wait"} =>
        /\ ReturnedLevel("level_registration") \in ClippedLevels
        /\ ReturnedLevel("level_use") \in ClippedLevels

StageFunctions ==
    {"section_one_analysis", "section_two_analysis", "section_three_analysis"}

\* C5: no analysis stage lets an exception escape to its caller.  In the
\* code get_azure_client() is called before the try block of each stage, and
\* section_three_analysis reads the similar_marks entries before its try block.
C5_StagesNeverRaise == raised \notin StageFunctions

ValidInputs ==
    CheckInputs(proposed_name, proposed_class, proposed_goods_services,
                conflicts_data) = Unset

\* C6: with valid inputs the run ends with an opinion document, whichever
\* model calls failed.  Stated for the runs in which no exception escaped a
\* function, where the only failures are failed model calls: the code still
\* returns an error string when the reformat call fails.
C6_ValidInputsGiveOpinion ==
    (pc = "done" /\ ValidInputs /\ raised = "none") => result.kind = "opinion"

MissingMarkInfo ==
    proposed_name = <<>> \/ proposed_class = "" \/ proposed_goods_services = <<>>

\* C7: with a missing name, class or goods/services the run returns the
\* missing-information error, otherwise with an empty candidate list the
\* no-conflict-data error; in both cases the relevance filter is not run and
\* no call to the model is made.
C7_InputErrorFailsFast ==
    /\ MissingMarkInfo =>
           /\ stages = <<>>
           /\ calls = <<>>
           /\ pc \in {"start", "done"}
           /\ pc = "done" => result = ErrMissing
    /\ (~MissingMarkInfo /\ conflicts_data = <<>>) =>
           /\ stages = <<>>
           /\ calls = <<>>
           /\ pc \in {"start", "done"}
           /\ pc = "done" => result = ErrNoData

C7_Witness ==
    /\ pc = "done"
    /\ proposed_name = <<>>
    /\ conflicts_data = <<>>
    /\ result = ErrMissing

StageOrder ==
    <<"validate_trademark_relevance", "section_one_analysis", "section_two_analysis",
      "section_three_analysis", "clean_and_format_opinion">>

CallOrder ==
    <<"section_one_analysis", "section_two_analysis", "section_three_analysis",
      "clean_and_format_opinion">>

IsPrefix(s, t) == Len(s) <= Len(t) /\ s = SubSeq(t, 1, Len(s))

CallsOf(stage) == Cardinality({i \in 1..Len(calls) : calls[i] = stage})

C8_Order ==
    /\ IsPrefix(stages, StageOrder)
    /\ IsPrefix(calls, CallOrder)
    /\ pending # "none" => (calls # <<>> /\ pending = calls[Len(calls)])
    /\ section_one_results # Unset => CallsOf("section_one_analysis") = 1
    /\ section_two_results # Unset => CallsOf("section_two_analysis") = 1
    /\ section_three_results # Unset => CallsOf("section_three_analysis") = 1
    /\ (pc = "done" /\ ValidInputs /\ raised = "none") => calls = CallOrder
    /\ s3_args # Unset =>
           /\ section_one_results # Unset
           /\ section_two_results # Unset
           /\ s3_args.section_one_results = section_one_results
           /\ s3_args.section_two_results = section_two_results

C8_CallStep ==
    calls' # calls => (pending = "none" /\ Len(calls') = Len(calls) + 1)

\* C8: the stages of a run are entered in the order filter, hit analysis,
\* component analysis, risk assessment, reformat; a stage that has returned
\* has issued exactly one call; a call is issued only while no call is
\* pending; the risk stage is given the results of the hit stage and of the
\* component stage.
C8_StagesInStrictOrder == []C8_Order /\ [][C8_CallStep]_vars

C8_Witness ==
    /\ pc = "done"
    /\ calls = CallOrder
    /\ result.kind = "opinion"

\* C9: in a run whose repaired hit analysis holds a Phonetic or Semantic
\* similar mark with class_match true, no component-analysis call is made.
\* generate_trademark_opinion calls section_two_analysis in every run.
C9_SkipRuleASkipsComponentStage ==
    (section_one_results # Unset /\ skip_section_two(section_one_results)) =>
        /\ CallsOf("section_two_analysis") = 0
        /\ "section_two_analysis" \notin {stages[i] : i \in 1..Len(stages)}

\* C10: when the condition of skip rule A holds, the assessment returned by
\* section_three_analysis has both levels MEDIUM-HIGH, whatever the model
\* answered.  The code returns the model's levels as parsed.
C10_SkipRuleAPresetsMediumHigh ==
    (RiskReturned /\ skip_section_two(section_one_results)) =>
        /\ ReturnedLevel("level_registration") = "MEDIUM-HIGH"
        /\ ReturnedLevel("level_use") = "MEDIUM-HIGH"

\* the Section IV text reports an identical cited term
IdenticalCitedTerm ==
    /\ "identical_cited_terms" \in DOMAIN cited_term_analysis
    /\ cited_term_analysis.identical_cited_terms

\* the risk level the Section VI text of the report states
WebRisk ==
    IF "risk" \in DOMAIN risk_assessment
    THEN risk_assessment.risk
    ELSE "absent"

SectionFiveExecuted ==
    \E i \in 1..Len(web_calls) : web_calls[i] = "section_five_analysis"

\* C11: in analyze_web_common_law, when the Section IV analysis finds an
\* identical cited term, section_five_analysis is not executed and the risk
\* of the report is MEDIUM-HIGH.  The code calls section_five_analysis in
\* every run, without the Section IV text, and returns the Section VI text
\* as the model wrote it.
C11_IdenticalCitedTermSkipsSectionFive ==
    IdenticalCitedTerm =>
        /\ ~SectionFiveExecuted
        /\ (web_pc = "done" => WebRisk = "MEDIUM-HIGH")

CorrectedBuckets ==
    {"identical_marks", "one_letter_marks", "two_letter_marks", "similar_marks"}

InBucket(entry, bucket) ==
    \E i \in 1..Len(cc_out[bucket]) : cc_out[bucket][i] = entry

\* C12: after consistency_check no candidate is in two of the corrected
\* buckets identical_marks, one_letter_marks, two_letter_marks and
\* similar_marks, whatever the raw classification was.  The code copies the
\* raw similar_marks as they are and never removes from them a candidate it
\* also files by distance.
C12_BucketsMutuallyExclusive ==
    cc_pc = "done" =>
        \A b1 \in CorrectedBuckets : \A b2 \in CorrectedBuckets \ {b1} :
            \A i \in 1..Len(cc_out[b1]) : ~InBucket(cc_out[b1][i], b2)

HasGoods(conflict) == "goods_services" \in DOMAIN conflict

\* the keyword set of a text: its lower-case words that are not stop words
ClaimKeywords(text) == Keywords(Lower(text)) \ stop_words

\* the three conditions of the relevance rule, compared without case; the
\* ratio is the size of the intersection over the size of the smaller set,
\* and it has to exceed 30 in 100
RelevanceRule(candidate_goods, proposed_goods) ==
    LET c == Lower(candidate_goods)
        p == Lower(proposed_goods)
        ck == ClaimKeywords(candidate_goods)
        pk == ClaimKeywords(proposed_goods)
        smaller == IF Cardinality(ck) <= Cardinality(pk)
                   THEN Cardinality(ck) ELSE Cardinality(pk)
    IN \/ c = p
       \/ IsSubstring(c, p)
       \/ IsSubstring(p, c)
       \/ /\ ck # {}
          /\ pk # {}
          /\ 100 * Cardinality(ck \cap pk) > 30 * smaller

\* candidates of the call that have the field and meet, or miss, the rule
MeetsRule(conflict) ==
    HasGoods(conflict) /\ RelevanceRule(conflict.goods_services,
                                        fn_args.proposed_goods_services)

MissesRule(conflict) ==
    HasGoods(conflict) /\ ~RelevanceRule(conflict.goods_services,
                                         fn_args.proposed_goods_services)

\* C13: of the candidates that have a goods_services field,
\* validate_trademark_relevance keeps exactly those whose text, compared
\* without case, equals the proposed text, contains it or is contained in
\* it, or whose keyword-overlap ratio is strictly above 0.30; each of the
\* others is dropped and adds exactly one to excluded_count.
C13_KeepsIffRelevanceRule ==
    fn_pc = "filtered" =>
        /\ SelectSeq(fn_out[1], HasGoods) =
               SelectSeq(fn_args.conflicts_array, MeetsRule)
        /\ fn_out[2] = Len(SelectSeq(fn_args.conflicts_array, MissesRule))

\* a call in which one candidate is kept on the ratio alone and another,
\* whose ratio is exactly 0.30, is dropped
C13_Witness ==
    /\ fn_pc = "filtered"
    /\ fn_args.proposed_goods_services = TenWords
    /\ fn_args.conflicts_array =
           <<[mark |-> Ab, goods_services |-> ThreeOfTen],
             [mark |-> Ab, goods_services |-> FourOfTen]>>
    /\ fn_out = <<<<[mark |-> Ab, goods_services |-> FourOfTen]>>, 1>>

LacksGoods(conflict) == ~HasGoods(conflict)

\* C14: validate_trademark_relevance keeps every candidate that has no
\* goods_services field, whatever the proposed text is, and excluded_count
\* counts dropped candidates only, so none of the kept ones is counted.
C14_MissingGoodsKept ==
    fn_pc = "filtered" =>
        /\ SelectSeq(fn_out[1], LacksGoods) =
               SelectSeq(fn_args.conflicts_array, LacksGoods)
        /\ fn_out[2] = Len(fn_args.conflicts_array) - Len(fn_out[1])
        /\ fn_out[2] <= Len(SelectSeq(fn_args.conflicts_array, HasGoods))

\* a call that drops a candidate with the field and keeps one without it
C14_Witness ==
    /\ fn_pc = "filtered"
    /\ fn_args.proposed_goods_services = Shampoo
    /\ fn_args.conflicts_array =
           <<[mark |-> Ab, goods_services |-> HatsUpper], [mark |-> Ab]>>
    /\ fn_out = <<<<[mark |-> Ab]>>, 1>>

\* C15: filtering the relevant list of a call again, with the same proposed
\* goods and services, returns that list unchanged and excludes nothing.
C15_FilterIdempotent ==
    fn_pc = "refiltered" => fn_again = <<fn_out[1], 0>>

\* the first call dropped one candidate and kept two, one of them on its
\* goods and services
C15_Witness ==
    /\ fn_pc = "refiltered"
    /\ Len(fn_args.conflicts_array) = 3
    /\ fn_out[2] = 1
    /\ SelectSeq(fn_out[1], HasGoods) # <<>>
    /\ SelectSeq(fn_out[1], LacksGoods) # <<>>

RECURSIVE IsSubsequence(_, _)
\* s is t with some of its elements left out
IsSubsequence(s, t) ==
    IF s = <<>> THEN TRUE
    ELSE IF t = <<>> THEN FALSE
    ELSE IF Head(s) = Head(t) THEN IsSubsequence(Tail(s), Tail(t))
    ELSE IsSubsequence(s, Tail(t))

OneEdit(s) ==
    {SubSeq(s, 1, i - 1) \o SubSeq(s, i + 1, Len(s)) : i \in 1..Len(s)}
    \cup {SubSeq(s, 1, i - 1) \o <<c>> \o SubSeq(s, i + 1, Len(s)) :
              i \in 1..Len(s), c \in LevChars}
    \cup {SubSeq(s, 1, i) \o <<c>> \o SubSeq(s, i + 1, Len(s)) :
              i \in 0..Len(s), c \in LevChars}

RECURSIVE WithinEdits(_, _)
\* <<W0, ..., Wk>>: Wj is the set of names at most j edits away from s
WithinEdits(s, k) ==
    IF k = 0 THEN <<{s}>>
    ELSE LET levels == WithinEdits(s, k - 1)
             last == levels[Len(levels)]
         IN Append(levels, (last \cup UNION {OneEdit(t) : t \in last}) \cap Names)

\* for every name, the names reachable from it with 0, 1, ... MaxLen edits
EditTable == {<<s, WithinEdits(s, MaxLen)>> : s \in Names}

\* the least number of single-character edits that turn a into b
FewestEdits(a, b) ==
    LET levels == (CHOOSE row \in EditTable : row[1] = a)[2]
    IN CHOOSE k \in 0..MaxLen :
           /\ b \in levels[k + 1]
           /\ \A j \in 0..(k - 1) : b \notin levels[j + 1]

\* C17: levenshtein_distance(a, b) is the least number of single-character
\* insertions, deletions and substitutions that turn a into b; the distance
\* to the empty string is the length of the other string, "CAT" and "CAR"
\* are 1 apart, "CAT" and "DOG" are 3 apart, and names that differ in case
\* are not equal.
C17_DistanceIsFewestEdits ==
    fn_pc = "done" =>
        /\ (fn_args.a \in Names /\ fn_args.b \in Names) =>
               fn_out = FewestEdits(fn_args.a, fn_args.b)
        /\ fn_args.a = <<>> => fn_out = Len(fn_args.b)
        /\ fn_args.b = <<>> => fn_out = Len(fn_args.a)
        /\ (fn_args.a = Cat /\ fn_args.b = Car) => fn_out = 1
        /\ (fn_args.a = Cat /\ fn_args.b = Dog) => fn_out = 3
        /\ (fn_args.a # fn_args.b /\ Lower(fn_args.a) = Lower(fn_args.b)) =>
               fn_out >= 1

\* the distance of two names of full length that differ in case and in a
\* letter has been computed
C17_Witness ==
    /\ fn_pc = "done"
    /\ fn_args.a = <<"a", "b", "a">>
    /\ fn_args.b = <<"A", "b", "b">>
    /\ fn_out = 2

\* C18: levenshtein_distance(a, b) = levenshtein_distance(b, a) for all
\* names a and b, and levenshtein_distance(a, a) = 0.
C18_SymmetricAndZeroOnEqual ==
    fn_pc = "done" =>
        /\ fn_out = fn_again
        /\ fn_args.a = fn_args.b => fn_out = 0

\* both orders of a pair of names of different length have been computed
C18_Witness ==
    /\ fn_pc = "done"
    /\ fn_args.a = <<"a", "b">>
    /\ fn_args.b = <<"a", "b", "a">>
    /\ fn_out = 1
    /\ fn_again = 1

\* a line the row filter is to keep: any line that is not a data row, and a
\* data row with at least one of its two flags true
RowToKeep(line) ==
    line.kind = "data" => (line.class_match \/ line.goods_services_match)

\* C19: the row filter of clean_and_format_opinion drops exactly the data
\* rows in which neither Class Match nor Goods & Services Match is true;
\* header rows, separator rows and other lines pass through.  The code
\* reads the goods and services flag from the text after the last pipe,
\* which is empty in a row that ends with a pipe, and it treats a separator
\* row of seven columns as a data row.
C19_DropsExactlyRowsWithBothFlagsFalse ==
    fn_pc = "done" =>
        fn_out.text = RenderLines(SelectSeq(fn_args.lines, RowToKeep))

\* the returned lines that are a data row of the mark
RowsOfMark(mark) ==
    {i \in 1..Len(fn_out.text) :
        \E c \in BOOLEAN, g \in BOOLEAN : fn_out.text[i] = DataRow(mark, c, g)}

\* C20: in the opinion clean_and_format_opinion returns, a mark has at most
\* one row in a table, even when the text it was given lists the mark more
\* than once.  The code filters the lines one by one and never compares a
\* row with another.
C20_MarkAtMostOncePerSection ==
    fn_pc = "done" =>
        \A mark \in RowMarks : Cardinality(RowsOfMark(mark)) <= 1

\* the fields the claim requires of every entry
RequiredOfEntry ==
    {"owner", "goods_services", "status", "class", "class_match",
     "goods_services_match"}

\* C21: after consistency_check every entry of every corrected bucket has
\* the fields owner, goods_services, status, class, class_match and
\* goods_services_match.  The code files the entries as the model wrote
\* them; only component_consistency_check fills in missing fields, and it is
\* applied to the marks of the component analysis.
C21_EntriesHaveRequiredFields ==
    cc_pc = "done" =>
        \A bucket \in CorrectedBuckets :
            \A i \in 1..Len(cc_out[bucket]) :
                RequiredOfEntry \subseteq DOMAIN cc_out[bucket][i]

\* C22: consistency_check passes the raw similar_marks through: they are the
\* first entries of the corrected similar_marks, unmodified and in their
\* order, and the other three corrected buckets hold entries of the raw
\* identical_marks and one_two_letter_marks only, so no similar entry is
\* moved whatever its distance from the proposed mark.
C22_SimilarMarksPassThrough ==
    cc_pc = "done" =>
        LET similar == Get(cc_raw, "similar_marks", <<>>)
        IN /\ IsPrefix(similar, cc_out.similar_marks)
           /\ Len(cc_out.identical_marks) + Len(cc_out.one_letter_marks)
                  + Len(cc_out.two_letter_marks) + Len(cc_out.similar_marks)
              = Len(Get(cc_raw, "identical_marks", <<>>))
                  + Len(Get(cc_raw, "one_two_letter_marks", <<>>))
                  + Len(similar)

\* a raw similar entry whose mark is the proposed mark itself stays in
\* similar_marks
C22_Witness ==
    /\ cc_pc = "done"
    /\ cc_mark = Ab
    /\ cc_raw = [similar_marks |-> <<[mark |-> Ab, owner |-> "X"]>>]
    /\ cc_out.similar_marks = <<[mark |-> Ab, owner |-> "X"]>>
    /\ cc_out.identical_marks = <<>>

\* C23: the result of section_one_analysis has, on success as on failure,
\* the keys of the stage's empty default: the four mark lists, the
\* coordinated-class list with its explanation and the crowded-field block.
\* On success the code returns what consistency_check built, which has the
\* four mark lists only.
C23_HitAnalysisHasDefaultShape ==
    section_one_results # Unset =>
        DOMAIN section_one_default \subseteq DOMAIN section_one_results

\* C24: in the crowded-field block section_two_analysis hands downstream,
\* after component_consistency_check, is_crowded is true exactly when the
\* distinct-owner percentage is above 50.  The code fills in the keys the
\* block lacks and leaves the values the model wrote as they are.
C24_CrowdedIffAboveHalf ==
    (section_two_results # Unset /\ "crowded_field" \in DOMAIN section_two_results) =>
        LET block == section_two_results.crowded_field
        IN block.is_crowded <=> block.distinct_owner_percentage > 50

\* C25: a candidate list given to validate_trademark_relevance as a string
\* that is not valid JSON is dropped: the call returns no relevant
\* candidates and excluded count 0, and the text is never evaluated as
\* code, also when it starts with "[".  The code passes such a text to
\* eval when it starts with "[" and filters whatever eval returns.
C25_UnparseableStringDropped ==
    (fn_pc = "done" /\ fn_args.conflicts_array.text # "json") =>
        /\ ~fn_out.evaluated
        /\ fn_out.raised = "none"
        /\ fn_out.returned = <<<<>>, 0>>

\* an entry more than two letters from the proposed mark, case aside
FarFromMark(entry) == CaseInsensitiveDistance(cc_mark, entry) > 2

\* the corrected similar_marks after the entries passed through
AppendedSimilar ==
    SubSeq(cc_out.similar_marks,
           Len(Get(cc_raw, "similar_marks", <<>>)) + 1,
           Len(cc_out.similar_marks))

\* C26: every entry of the raw identical_marks or one_two_letter_marks whose
\* case-insensitive distance from the proposed mark is above 2 is appended
\* to the corrected similar_marks, after the entries passed through, and is
\* in none of identical_marks, one_letter_marks and two_letter_marks; none
\* is dropped.
C26_FarEntriesDemotedToSimilar ==
    cc_pc = "done" =>
        /\ SelectSeq(AppendedSimilar, FarFromMark) =
               SelectSeq(Get(cc_raw, "identical_marks", <<>>), FarFromMark)
               \o SelectSeq(Get(cc_raw, "one_two_letter_marks", <<>>), FarFromMark)
        /\ \A bucket \in CorrectedBuckets \ {"similar_marks"} :
               SelectSeq(cc_out[bucket], FarFromMark) = <<>>

\* the model called a far mark identical and another one a one- or
\* two-letter mark; both come after the similar entry passed through
C26_Witness ==
    /\ cc_pc = "done"
    /\ cc_mark = Abba
    /\ Len(Get(cc_raw, "similar_marks", <<>>)) = 0
    /\ Get(cc_raw, "identical_marks", <<>>) = <<[mark |-> Hats, owner |-> "X"]>>
    /\ Get(cc_raw, "one_two_letter_marks", <<>>) = <<[owner |-> "X"]>>
    /\ cc_out.similar_marks = <<[mark |-> Hats, owner |-> "X"], [owner |-> "X"]>>

\* the number of entries in the given buckets of a classification
RECURSIVE EntryCount(_, _)
EntryCount(classification, buckets) ==
    IF buckets = {} THEN 0
    ELSE LET bucket == CHOOSE b \in buckets : TRUE
         IN Len(Get(classification, bucket, <<>>))
            + EntryCount(classification, buckets \ {bucket})

\* C27: consistency_check loses no candidate: every entry of the raw
\* identical_marks, one_letter_marks, two_letter_marks, one_two_letter_marks
\* and similar_marks is in some corrected bucket, and the number of entries
\* is the same before and after.  The code reads the raw identical_marks,
\* one_two_letter_marks and similar_marks only, while the prompt asks the
\* model for one_letter_marks and two_letter_marks.
C27_NoCandidateLost ==
    cc_pc = "done" =>
        /\ \A raw \in RawBuckets :
               \A i \in 1..Len(Get(cc_raw, raw, <<>>)) :
                   \E bucket \in CorrectedBuckets :
                       InBucket(Get(cc_raw, raw, <<>>)[i], bucket)
        /\ EntryCount(cc_out, CorrectedBuckets) = EntryCount(cc_raw, RawBuckets)

\* C28: consistency_check applied to a classification it returned gives
\* that classification back.  The second call reads identical_marks,
\* one_two_letter_marks and similar_marks of its argument and so leaves out
\* the one_letter_marks and two_letter_marks the first call filled.
C28_RepairIdempotent ==
    cc_pc = "again" => cc_again = cc_out

\* section_three_analysis returned although its call gave no parseable
\* response
RiskDefaultReturned ==
    /\ section_three_results # Unset
    /\ risk_response # Unset
    /\ risk_response.kind \in FailureKinds

\* the hit analysis holds a similar mark that is Phonetic or Semantic and
\* has a true class_match
ConfusableSimilarMark ==
    LET similar == Get(section_one_results, "similar_marks", <<>>)
    IN \E i \in 1..Len(similar) :
           /\ IsObject(similar[i])
           /\ "similarity_type" \in DOMAIN similar[i]
           /\ similar[i].similarity_type \in {"Phonetic", "Semantic"}
           /\ "class_match" \in DOMAIN similar[i]
           /\ similar[i].class_match

DefaultLevel == IF ConfusableSimilarMark THEN "MEDIUM-HIGH" ELSE "MEDIUM-LOW"

\* C29: when its call raises, has no choices, has no JSON block or has one
\* that does not parse, section_three_analysis returns a default whose
\* level_registration and level_use are both MEDIUM-HIGH if the hit analysis
\* holds a Phonetic or Semantic similar mark with a true class_match, and
\* both MEDIUM-LOW if not, whatever the identical marks and the component
\* analysis are.
C29_FailureDefaultLevels ==
    RiskDefaultReturned =>
        /\ ReturnedLevel("level_registration") = DefaultLevel
        /\ ReturnedLevel("level_use") = DefaultLevel

\* the default is MEDIUM-LOW in a run with an identical mark and a crowded
\* component analysis, and no confusable similar mark
C29_Witness ==
    /\ RiskDefaultReturned
    /\ risk_response.kind = "bad_json"
    /\ HasIdenticalMark
    /\ ~ConfusableSimilarMark
    /\ Get(section_one_results, "similar_marks", <<>>) # <<>>
    /\ "crowded_field" \in DOMAIN section_two_results
    /\ section_two_results.crowded_field.is_crowded
    /\ ReturnedLevel("level_registration") = "MEDIUM-LOW"
    /\ ReturnedLevel("level_use") = "MEDIUM-LOW"

\* C30: run_trademark_analysis never raises: whatever its input and
\* whatever the functions it calls do, it returns a string.  The except
\* clause catches Exception; a candidate string that starts with "[" is
\* given to eval by the relevance filter, and the SystemExit of a text that
\* calls sys.exit is not an Exception.
C30_RunNeverRaises ==
    fn_pc = "ran" => fn_again.kind # "raised"

====
